---- MODULE Spec2Model ----
(***************************************************************************)
(* Model of tools/update_packages.py: the updater of a Debian-style        *)
(* Packages index.  Text is a sequence of one-character strings, so that   *)
(* trimming, line splitting, the stanza-splitting regular expression and   *)
(* the field regular expressions are computed character by character, as   *)
(* the Python code computes them.                                          *)
(*                                                                         *)
(* Input domain of the model: index texts whose line terminators are LF    *)
(* or CRLF (no lone CR), a flat artifact directory of regular files, and   *)
(* declared Filename values with a non-empty basename.                     *)
(*                                                                         *)
(* The module also models, each under a specification of its own:          *)
(*   SpecStanza  join_stanzas followed by parse_stanzas on a stanza list;  *)
(*   SpecField   set_field and remove_fields on lines;                     *)
(*   SpecFetch   fetch_bytes of tools/download_repo_debs.py;               *)
(*   SpecBot     the main loop and Job threads of tg_bot_downloader.py.    *)
(***************************************************************************)
EXTENDS Integers, Sequences, FiniteSets, TLC

VARIABLES
    pc,           \* position of the run inside main()
    run,          \* number of the current run (1-based)
    opts,         \* the parsed command line (args)
    pkgFile,      \* PKG_FILE: NoFile or File(text)
    bakFile,      \* Packages.bak: NoFile or File(text)
    gzFile,       \* Packages.gz: NoFile or File(its decompressed text)
    bz2File,      \* Packages.bz2: NoFile or File(its decompressed text)
    debsDir,      \* DEBS: NoDir or Dir(entries in enumeration order)
    iconsDir,     \* the icons directory: NoDir or Dir(set of file names)
    raw,          \* main: raw
    stanzas,      \* main: stanzas as returned by parse_stanzas (apply_plans
                  \* assigns into this list; the parsed texts stay here)
    plans,        \* main: plans
    new_stanzas,  \* main: new_stanzas (the list after apply_plans)
    new_content,  \* main: new_content
    startFiles,   \* history: <<index, backup, gz, bz2>> when the run started
    prev          \* history: what the previous writing run planned and wrote

\* State of the other programs and functions of tools/ that the module models;
\* the updater leaves it alone.
VARIABLES
    fLines,       \* set_field / remove_fields: the lines handed in
    fKey,         \* set_field / remove_fields: key
    fValue,       \* set_field: value
    setOnce,      \* the lines set_field returned
    setTwice,     \* the lines set_field returned when applied to setOnce
    removed,      \* the lines remove_fields returned
    retries,      \* fetch_bytes: retries
    attempt,      \* fetch_bytes: attempt
    last_err,     \* fetch_bytes: last_err
    trace,        \* history: the requests and sleeps of fetch_bytes, in order
    result,       \* fetch_bytes: what the call returned or raised
    msg,          \* tg_bot_downloader: the update the main loop is handling
    running,      \* tg_bot_downloader: running (chat_id -> job, 0: no entry)
    jobs          \* tg_bot_downloader: the Job objects created, in order

fieldVars == <<fLines, fKey, fValue, setOnce, setTwice, removed>>
fetchVars == <<retries, attempt, last_err, trace, result>>
botVars == <<msg, running, jobs>>
otherVars == <<fieldVars, fetchVars, botVars>>

updaterVars == <<run, opts, pkgFile, bakFile, gzFile, bz2File, debsDir, iconsDir,
                 raw, stanzas, plans, new_stanzas, new_content, startFiles, prev>>

vars == <<pc, updaterVars, otherVars>>

fileVars == <<pkgFile, bakFile, gzFile, bz2File>>
dirVars == <<debsDir, iconsDir>>
localVars == <<raw, stanzas, plans, new_stanzas, new_content>>

\* A file: absent, or present with its text.  A directory: absent, or present
\* with its entries.
NoFile == [exists |-> FALSE, text |-> <<>>]
File(t) == [exists |-> TRUE, text |-> t]
NoDir == [exists |-> FALSE, entries |-> <<>>]
Dir(es) == [exists |-> TRUE, entries |-> es]

(***************************************************************************)
(* Bounds                                                                  *)
(***************************************************************************)
MaxStanzas == 2      \* stanzas in an input index
MaxRuns == 2         \* consecutive runs of the updater
MaxListLen == 2      \* stanzas in a list handed to join_stanzas directly

(***************************************************************************)
(* Characters and Python's string methods                                  *)
(***************************************************************************)
EOL == <<"\r", "\n">>

Whitespace == {" ", "\t", "\n", "\r"}

UpperCase == <<"A", "B", "C", "D", "E", "F", "G", "H", "I", "J", "K", "L", "M",
               "N", "O", "P", "Q", "R", "S", "T", "U", "V", "W", "X", "Y", "Z">>
LowerCase == <<"a", "b", "c", "d", "e", "f", "g", "h", "i", "j", "k", "l", "m",
               "n", "o", "p", "q", "r", "s", "t", "u", "v", "w", "x", "y", "z">>

\* The characters of the model in code point order.
CodePoints == <<"\t", "\n", "\r", " ", "-", ".", "/">>
              \o <<"0", "1", "2", "3", "4", "5", "6", "7", "8", "9", ":">>
              \o UpperCase \o <<"_">> \o LowerCase

Ord(c) == CHOOSE i \in 1..Len(CodePoints) : CodePoints[i] = c

LowerChar(c) ==
    IF \E i \in 1..26 : UpperCase[i] = c
    THEN LowerCase[CHOOSE i \in 1..26 : UpperCase[i] = c]
    ELSE c

lower(s) == [i \in 1..Len(s) |-> LowerChar(s[i])]

\* The first position >= i of s that holds no whitespace (Len(s) + 1: none).
lstripFrom(s, i) ==
    CHOOSE k \in i..(Len(s) + 1) :
        /\ k = Len(s) + 1 \/ s[k] \notin Whitespace
        /\ \A j \in i..(k - 1) : s[j] \in Whitespace

\* The last position <= j of s that holds no whitespace (0: none).
rstripTo(s, j) ==
    CHOOSE k \in 0..j :
        /\ k = 0 \/ s[k] \notin Whitespace
        /\ \A m \in (k + 1)..j : s[m] \in Whitespace

strip(s) ==
    LET i == lstripFrom(s, 1)
        j == rstripTo(s, Len(s))
    IN  IF i > j THEN <<>> ELSE SubSeq(s, i, j)

startswith(s, p) == Len(p) <= Len(s) /\ SubSeq(s, 1, Len(p)) = p

endswith(s, p) ==
    Len(p) <= Len(s) /\ SubSeq(s, Len(s) - Len(p) + 1, Len(s)) = p

\* sep.join(parts)
RECURSIVE JoinWith(_, _)
JoinWith(sep, parts) ==
    IF parts = <<>> THEN <<>>
    ELSE IF Len(parts) = 1 THEN parts[1]
    ELSE parts[1] \o sep \o JoinWith(sep, Tail(parts))

\* str.splitlines(): a line ends at "\r\n", "\n" or "\r"; no empty last line.
\* LineEnd: the first position >= start holding a line terminator character.
LineEnd(s, start) ==
    CHOOSE i \in start..(Len(s) + 1) :
        /\ i = Len(s) + 1 \/ s[i] \in {"\n", "\r"}
        /\ \A j \in start..(i - 1) : s[j] \notin {"\n", "\r"}

RECURSIVE splitlinesFrom(_, _)
splitlinesFrom(s, start) ==
    IF start > Len(s) THEN <<>>
    ELSE LET i == LineEnd(s, start)
         IN  IF i > Len(s) THEN <<SubSeq(s, start, Len(s))>>
             ELSE IF s[i] = "\r" /\ i < Len(s) /\ s[i + 1] = "\n"
             THEN <<SubSeq(s, start, i - 1)>> \o splitlinesFrom(s, i + 2)
             ELSE <<SubSeq(s, start, i - 1)>> \o splitlinesFrom(s, i + 1)

splitlines(s) == splitlinesFrom(s, 1)

(***************************************************************************)
(* parse_stanzas / join_stanzas                                            *)
(***************************************************************************)
\* Length of the match of \r?\n at position i of t (0: no match).
BreakAt(t, i) ==
    IF i <= Len(t) /\ t[i] = "\n" THEN 1
    ELSE IF i < Len(t) /\ t[i] = "\r" /\ t[i + 1] = "\n" THEN 2
    ELSE 0

\* Greedy (?:\r?\n)* from position i: <<position after the run, repetitions>>.
RECURSIVE BreakRun(_, _, _)
BreakRun(t, i, n) ==
    LET k == BreakAt(t, i)
    IN  IF k = 0 THEN <<i, n>> ELSE BreakRun(t, i + k, n + 1)

\* The regular expression (?:\r?\n){2,} matches at position i of t.
SeparatorAt(t, i) == BreakRun(t, i, 0)[2] >= 2

\* The leftmost position >= from where the separator matches (Len(t) + 1: none).
NextSeparator(t, from) ==
    CHOOSE i \in from..(Len(t) + 1) :
        /\ i = Len(t) + 1 \/ SeparatorAt(t, i)
        /\ \A j \in from..(i - 1) : ~SeparatorAt(t, j)

\* re.split(r"(?:\r?\n){2,}", t): the parts of t from position start on.
RECURSIVE re_split(_, _)
re_split(t, start) ==
    LET i == NextSeparator(t, start)
    IN  IF i > Len(t) THEN <<SubSeq(t, start, Len(t))>>
        ELSE <<SubSeq(t, start, i - 1)>> \o re_split(t, BreakRun(t, i, 0)[1])

NonBlank(p) == strip(p) # <<>>

parse_stanzas(text) == SelectSeq(re_split(text, 1), NonBlank)

join_stanzas(list) ==
    JoinWith(EOL \o EOL, [i \in 1..Len(list) |-> strip(list[i])]) \o EOL

(***************************************************************************)
(* Optional values                                                         *)
(***************************************************************************)
NoneV == [some |-> FALSE, val |-> <<>>]
Some(v) == [some |-> TRUE, val |-> v]
\* Python truthiness of an Optional[str]: neither None nor "".
Truthy(o) == o.some /\ o.val # <<>>

(***************************************************************************)
(* get_field / set_field / remove_fields                                   *)
(***************************************************************************)
\* pattern.match(ln) for ^\s*KEY\s*:\s*(.+)$ with re.IGNORECASE on a line
\* (a line holds no line terminator): NoneV, or Some(group(1).strip()).
\* The keys start with a letter, so the leading \s* takes all leading
\* whitespace; when only whitespace follows the colon, \s* gives one
\* character back to (.+), and the stripped value is "".
FieldMatch(ln, key) ==
    LET i0 == lstripFrom(ln, 1)
        i1 == lstripFrom(ln, i0 + Len(key))
        i2 == lstripFrom(ln, i1 + 1)
    IN  IF /\ i0 + Len(key) - 1 <= Len(ln)
           /\ lower(SubSeq(ln, i0, i0 + Len(key) - 1)) = lower(key)
           /\ i1 <= Len(ln)
           /\ ln[i1] = ":"
           /\ i1 < Len(ln)
        THEN Some(strip(SubSeq(ln, i2, Len(ln))))
        ELSE NoneV

\* get_field: [idx, value] of the first matching line; idx 0 stands for None
\* (the model's lines are numbered from 1).
get_field(lines, key) ==
    LET hits == {i \in 1..Len(lines) : FieldMatch(lines[i], key).some}
    IN  IF hits = {} THEN [idx |-> 0, value |-> NoneV]
        ELSE LET i == CHOOSE i \in hits : \A j \in hits : i <= j
             IN  [idx |-> i, value |-> FieldMatch(lines[i], key)]

FieldLine(key, value) == key \o <<":", " ">> \o value

set_field(lines, key, value) ==
    LET idx == get_field(lines, key).idx
    IN  IF idx = 0 THEN Append(lines, FieldLine(key, value))
        ELSE [lines EXCEPT ![idx] = FieldLine(key, value)]

\* m.group(1).strip().lower() of re.match(r"^\s*([^:]+)\s*:\s*", ln): the text
\* before the first colon, which must hold at least one character; NoneV when
\* the line does not match.
FieldName(ln) ==
    LET colons == {i \in 1..Len(ln) : ln[i] = ":"}
    IN  IF colons = {} THEN NoneV
        ELSE LET c == CHOOSE i \in colons : \A j \in colons : i <= j
             IN  IF c < 2 THEN NoneV
                 ELSE Some(lower(strip(SubSeq(ln, 1, c - 1))))

IsRemoved(ln, keys) ==
    FieldName(ln).some /\ FieldName(ln).val \in {lower(k) : k \in keys}


\* remove_fields comparing the field names case-sensitively.
remove_fields_case(lines, keys) ==
    LET Keep(ln) ==
            LET colons == {i \in 1..Len(ln) : ln[i] = ":"}
                c == CHOOSE i \in colons : \A j \in colons : i <= j
            IN  colons = {} \/ c < 2 \/ strip(SubSeq(ln, 1, c - 1)) \notin keys
    IN  SelectSeq(lines, Keep)

remove_fields(lines, keys) ==
    LET Keep(ln) == ~IsRemoved(ln, keys)
    IN  SelectSeq(lines, Keep)

(***************************************************************************)
(* parse_deb_filename                                                      *)
(***************************************************************************)
DotDeb == <<".", "d", "e", "b">>

\* name.rsplit('_', 2) has three parts iff name holds two underscores.
parse_deb_filename(name) ==
    IF ~endswith(name, DotDeb) THEN NoneV
    ELSE LET base == SubSeq(name, 1, Len(name) - 4)
             us == {i \in 1..Len(base) : base[i] = "_"}
         IN  IF Cardinality(us) < 2 THEN NoneV
             ELSE LET u2 == CHOOSE i \in us : \A j \in us : j <= i
                      u1 == CHOOSE i \in us \ {u2} : \A j \in us \ {u2} : j <= i
                      pkg == SubSeq(base, 1, u1 - 1)
                      ver0 == SubSeq(base, u1 + 1, u2 - 1)
                      arch0 == SubSeq(base, u2 + 1, Len(base))
                      ver == IF Len(ver0) > 1 /\ ver0[1] \in {"v", "V"}
                             THEN Tail(ver0) ELSE ver0
                      dots == {i \in 1..Len(arch0) : arch0[i] = "."}
                      arch == IF dots = {} THEN arch0
                              ELSE SubSeq(arch0, 1,
                                     (CHOOSE i \in dots : \A j \in dots : i <= j) - 1)
                  IN  Some(<<pkg, ver, arch>>)

(***************************************************************************)
(* The artifact directory                                                  *)
(***************************************************************************)
\* The entries of a directory are a sequence of [name, content] in the order
\* the file system enumerates them; content stands for the file's bytes.
DirNames(dir) == {dir.entries[i].name : i \in 1..Len(dir.entries)}

\* Path.exists() of dir / name
Exists(dir, name) == name \in DirNames(dir)

ContentOf(dir, name) ==
    dir.entries[CHOOSE i \in 1..Len(dir.entries) : dir.entries[i].name = name].content

\* Path.stat().st_size and file_hash(path, algo) as functions of the bytes:
\* the digest is a short lowercase hex string, distinct per algorithm.
Digits == <<"0", "1", "2", "3", "4", "5", "6", "7", "8", "9">>

st_size(content) == 10 + content

file_hash(content, algo) ==
    CASE algo = "md5" -> <<"a", Digits[content + 1]>>
      [] algo = "sha1" -> <<"b", Digits[content + 1]>>
      [] algo = "sha256" -> <<"c", Digits[content + 1]>>

\* str(n) of a non-negative integer
RECURSIVE DecStr(_)
DecStr(n) ==
    IF n < 10 THEN <<Digits[n + 1]>>
    ELSE DecStr(n \div 10) \o <<Digits[(n % 10) + 1]>>

\* a < b for strings, by code points
LexLess(a, b) ==
    \E k \in 1..(Len(a) + 1) :
        /\ k <= Len(b)
        /\ \A j \in 1..(k - 1) : a[j] = b[j]
        /\ (k > Len(a) \/ Ord(a[k]) < Ord(b[k]))

\* dir.glob(stem + '*.deb'): the matching names in enumeration order
GlobMatch(name, stem) ==
    /\ startswith(name, stem)
    /\ endswith(name, DotDeb)
    /\ Len(name) >= Len(stem) + Len(DotDeb)

glob(dir, stem) ==
    LET Hit(e) == GlobMatch(e.name, stem)
        hits == SelectSeq(dir.entries, Hit)
    IN  [i \in 1..Len(hits) |-> hits[i].name]


\* sorted() left out: the names stay in enumeration order.
unsorted(names) == names

\* sorted(names)
RECURSIVE sorted(_)
sorted(names) ==
    IF names = <<>> THEN <<>>
    ELSE LET m == CHOOSE i \in 1..Len(names) :
                    \A j \in 1..Len(names) : ~LexLess(names[j], names[i])
             rest == [k \in 1..(Len(names) - 1) |->
                        IF k < m THEN names[k] ELSE names[k + 1]]
         IN  <<names[m]>> \o sorted(rest)

\* os.path.basename
basename(path) ==
    LET slashes == {i \in 1..Len(path) : path[i] = "/"}
    IN  IF slashes = {} THEN path
        ELSE SubSeq(path, (CHOOSE i \in slashes : \A j \in slashes : j <= i) + 1,
                    Len(path))

(***************************************************************************)
(* Field names and fixed strings of the program                            *)
(***************************************************************************)
KPackage == <<"P", "a", "c", "k", "a", "g", "e">>
KVersion == <<"V", "e", "r", "s", "i", "o", "n">>
KArchitecture == <<"A", "r", "c", "h", "i", "t", "e", "c", "t", "u", "r", "e">>
KFilename == <<"F", "i", "l", "e", "n", "a", "m", "e">>
KIcon == <<"I", "c", "o", "n">>
KSize == <<"S", "i", "z", "e">>
KMD5sum == <<"M", "D", "5", "s", "u", "m">>
KSHA1 == <<"S", "H", "A", "1">>
KSHA256 == <<"S", "H", "A", "2", "5", "6">>
HashKeys == {KSize, KMD5sum, KSHA1, KSHA256}
DebsPrefix == <<".", "/", "d", "e", "b", "s", "/">>
IconsPrefix == <<"i", "c", "o", "n", "s", "/">>
IconExts == << <<".", "p", "n", "g">>, <<".", "j", "p", "g">>,
               <<".", "j", "p", "e", "g">>, <<".", "w", "e", "b", "p">> >>

(***************************************************************************)
(* _find_icon_for_package                                                  *)
(***************************************************************************)
\* str.rstrip('/')
RECURSIVE rstripSlash(_)
rstripSlash(s) ==
    IF s # <<>> /\ s[Len(s)] = "/" THEN rstripSlash(SubSeq(s, 1, Len(s) - 1)) ELSE s

find_icon_for_package(package_id, icons_dir, icon_url_prefix) ==
    IF ~Truthy(package_id) \/ ~icons_dir.exists THEN NoneV
    ELSE LET found == {k \in 1..Len(IconExts) : (package_id.val \o IconExts[k]) \in icons_dir.entries}
         IN  IF found = {} THEN NoneV
             ELSE LET k == CHOOSE k \in found : \A j \in found : k <= j
                      icon_name == package_id.val \o IconExts[k]
                  IN  IF Truthy(icon_url_prefix)
                      THEN Some(rstripSlash(icon_url_prefix.val) \o <<"/">> \o icon_name)
                      ELSE Some(IconsPrefix \o icon_name)

(***************************************************************************)
(* build_update_plans                                                      *)
(***************************************************************************)

\* ResolveArtifact without the fuzzy fallback of lines 133-142.
ResolveArtifactExactOnly(dir, deb_name) ==
    [ok |-> Exists(dir, deb_name), actual_name |-> deb_name, fix_filename |-> NoneV]

\* Lines 129-146: the artifact of deb_name in DEBS: exact, else the first of
\* the sorted candidates stem*.deb, else none.
ResolveArtifact(dir, deb_name) ==
    IF Exists(dir, deb_name)
    THEN [ok |-> TRUE, actual_name |-> deb_name, fix_filename |-> NoneV]
    ELSE LET candidates ==
                 IF endswith(deb_name, DotDeb)
                 THEN sorted(glob(dir, SubSeq(deb_name, 1, Len(deb_name) - 4)))
                 ELSE <<>>
         IN  IF candidates # <<>>
             THEN [ok |-> TRUE, actual_name |-> candidates[1],
                   fix_filename |-> Some(DebsPrefix \o candidates[1])]
             ELSE [ok |-> FALSE, actual_name |-> deb_name, fix_filename |-> NoneV]

\* Lines 152-175: <<fix_pkg, fix_ver, fix_arch, pkg_id_val>>
ReconcileMetadata(lines, actual_name, fix_metadata) ==
    LET parsed == parse_deb_filename(actual_name)
        cur_pkg == get_field(lines, KPackage).value
        cur_ver == get_field(lines, KVersion).value
        cur_arch == get_field(lines, KArchitecture).value
    IN  IF fix_metadata /\ parsed.some
        THEN << IF cur_pkg # Some(parsed.val[1]) THEN Some(parsed.val[1]) ELSE NoneV,
                IF cur_ver # Some(parsed.val[2]) THEN Some(parsed.val[2]) ELSE NoneV,
                IF cur_arch # Some(parsed.val[3]) THEN Some(parsed.val[3]) ELSE NoneV,
                Some(parsed.val[1]) >>
        ELSE <<NoneV, NoneV, NoneV, cur_pkg>>

\* `only and deb_name not in only`: only is None or a set of basenames
ExcludedByOnly(only, deb_name) ==
    only.some /\ only.val # {} /\ deb_name \notin only.val

\* One iteration of the loop of build_update_plans: the plan of stanza i, or
\* NoneV when the loop continues without one.  stanza_index counts from 1.
PlanFor(i, stanza, only, fix_metadata, add_icons, icons_dir, icon_url_prefix) ==
    LET lines == splitlines(stanza)
        filename_field == get_field(lines, KFilename).value
        deb_name == basename(filename_field.val)
        res == ResolveArtifact(debsDir, deb_name)
        content == ContentOf(debsDir, res.actual_name)
        fix == ReconcileMetadata(lines, res.actual_name, fix_metadata)
    IN  IF ~Truthy(filename_field) THEN NoneV
        ELSE IF ExcludedByOnly(only, deb_name) THEN NoneV
        ELSE IF ~res.ok THEN NoneV
        ELSE Some([stanza_index |-> i,
                   filename |-> res.actual_name,
                   size |-> st_size(content),
                   md5 |-> file_hash(content, "md5"),
                   sha1 |-> file_hash(content, "sha1"),
                   sha256 |-> file_hash(content, "sha256"),
                   fix_pkg |-> fix[1],
                   fix_ver |-> fix[2],
                   fix_arch |-> fix[3],
                   fix_filename |-> res.fix_filename,
                   icon_url |-> IF add_icons
                                THEN find_icon_for_package(fix[4], icons_dir, icon_url_prefix)
                                ELSE NoneV])

RECURSIVE PlansFrom(_, _, _, _, _, _, _)
PlansFrom(i, list, only, fix_metadata, add_icons, icons_dir, icon_url_prefix) ==
    IF i > Len(list) THEN <<>>
    ELSE LET p == PlanFor(i, list[i], only, fix_metadata, add_icons, icons_dir,
                          icon_url_prefix)
             rest == PlansFrom(i + 1, list, only, fix_metadata, add_icons, icons_dir,
                               icon_url_prefix)
         IN  IF p.some THEN <<p.val>> \o rest ELSE rest

build_update_plans(list, only, fix_metadata, add_icons, icons_dir, icon_url_prefix) ==
    PlansFrom(1, list, only, fix_metadata, add_icons, icons_dir, icon_url_prefix)

(***************************************************************************)
(* apply_plans                                                             *)
(***************************************************************************)
SetIf(lines, key, fix) ==
    IF Truthy(fix) THEN set_field(lines, key, fix.val) ELSE lines


\* ApplyPlan without the remove_fields call of line 190.
ApplyPlanKeepOld(stanza, plan) ==
    LET l0 == splitlines(stanza)
        l1 == SetIf(l0, KPackage, plan.fix_pkg)
        l2 == SetIf(l1, KVersion, plan.fix_ver)
        l3 == SetIf(l2, KArchitecture, plan.fix_arch)
        l4 == SetIf(l3, KFilename, plan.fix_filename)
        l5 == SetIf(l4, KIcon, plan.icon_url)
        l6 == l5 \o << FieldLine(KSize, DecStr(plan.size)),
                       FieldLine(KMD5sum, plan.md5),
                       FieldLine(KSHA1, plan.sha1),
                       FieldLine(KSHA256, plan.sha256) >>
    IN  JoinWith(EOL, l6)

\* The body of the loop of apply_plans: the new text of the plan's stanza.
ApplyPlan(stanza, plan) ==
    LET l0 == remove_fields(splitlines(stanza), HashKeys)
        l1 == SetIf(l0, KPackage, plan.fix_pkg)
        l2 == SetIf(l1, KVersion, plan.fix_ver)
        l3 == SetIf(l2, KArchitecture, plan.fix_arch)
        l4 == SetIf(l3, KFilename, plan.fix_filename)
        l5 == SetIf(l4, KIcon, plan.icon_url)
        l6 == l5 \o << FieldLine(KSize, DecStr(plan.size)),
                       FieldLine(KMD5sum, plan.md5),
                       FieldLine(KSHA1, plan.sha1),
                       FieldLine(KSHA256, plan.sha256) >>
    IN  JoinWith(EOL, l6)


\* apply_plans storing each new stanza one position too far (0-based index
\* used as if it counted from 1), wrapping at the end of the list.
RECURSIVE apply_plans_shifted(_, _)
apply_plans_shifted(list, pls) ==
    IF pls = <<>> THEN list
    ELSE apply_plans_shifted(
             [list EXCEPT ![(Head(pls).stanza_index % Len(list)) + 1] =
                              ApplyPlan(list[Head(pls).stanza_index], Head(pls))],
             Tail(pls))

RECURSIVE apply_plans(_, _)
apply_plans(list, pls) ==
    IF pls = <<>> THEN list
    ELSE apply_plans(
             [list EXCEPT ![Head(pls).stanza_index] = ApplyPlan(@, Head(pls))],
             Tail(pls))

(***************************************************************************)
(* Inputs: index texts, artifact directories, command lines                *)
(***************************************************************************)
\* Package: a | Version: 1 | Architecture: b | Filename: debs/a_1_b.deb | Size: 9 | MD5sum: 0
StanzaA ==
    << <<"P", "a", "c", "k", "a", "g", "e", ":", " ", "a">>,
       <<"V", "e", "r", "s", "i", "o", "n", ":", " ", "1">>,
       <<"A", "r", "c", "h", "i", "t", "e", "c", "t", "u", "r", "e", ":", " ", "b">>,
       <<"F", "i", "l", "e", "n", "a", "m", "e", ":", " ", "d", "e", "b", "s", "/", "a", "_", "1", "_", "b", ".", "d", "e", "b">>,
       <<"S", "i", "z", "e", ":", " ", "9">>,
       <<"M", "D", "5", "s", "u", "m", ":", " ", "0">> >>

\* size: 9 | Package: z | Filename: ./debs/a_v1_b.deb | SIZE : 8 | sha1: | Version: 1
StanzaC ==
    << <<"s", "i", "z", "e", ":", " ", "9">>,
       <<"P", "a", "c", "k", "a", "g", "e", ":", " ", "z">>,
       <<"F", "i", "l", "e", "n", "a", "m", "e", ":", " ", ".", "/", "d", "e", "b", "s", "/", "a", "_", "v", "1", "_", "b", ".", "d", "e", "b">>,
       <<"S", "I", "Z", "E", " ", ":", " ", "8">>,
       <<"s", "h", "a", "1", ":">>,
       <<"V", "e", "r", "s", "i", "o", "n", ":", " ", "1">> >>

\*  Package: d | Version: 2     (no Filename; a space before the first and
\* after the last line)
StanzaD ==
    << <<" ", "P", "a", "c", "k", "a", "g", "e", ":", " ", "d">>,
       <<"V", "e", "r", "s", "i", "o", "n", ":", " ", "2", " ">> >>

\* Package: a | Filename: a__b.deb
StanzaE ==
    << <<"P", "a", "c", "k", "a", "g", "e", ":", " ", "a">>,
       <<"F", "i", "l", "e", "n", "a", "m", "e", ":", " ", "a", "_", "_", "b", ".", "d", "e", "b">> >>

NameExact == <<"a", "_", "1", "_", "b", ".", "d", "e", "b">>
NameV == <<"a", "_", "v", "1", "_", "b", ".", "d", "e", "b">>
NameEmptyVer == <<"a", "_", "_", "b", ".", "d", "e", "b">>
NameFuzzyX == <<"a", "_", "1", "_", "b", ".", "x", ".", "d", "e", "b">>
NameFuzzyY == <<"a", "_", "1", "_", "b", ".", "y", ".", "d", "e", "b">>
IconJpg == <<"a", ".", "j", "p", "g">>
IconJpeg == <<"a", ".", "j", "p", "e", "g">>
UrlPrefix == <<"u", "/">>

StanzaPool == {StanzaA, StanzaC, StanzaD, StanzaE}

RECURSIVE ListsUpTo(_, _)
ListsUpTo(S, n) ==
    IF n = 0 THEN {<<>>}
    ELSE LET shorter == ListsUpTo(S, n - 1)
         IN  shorter \cup {Append(l, x) : l \in {m \in shorter : Len(m) = n - 1}, x \in S}

\* An index file: stanzas of lines, every line ended by eol, stanzas
\* separated by one empty line.
RenderIndex(list, eol) ==
    JoinWith(eol \o eol, [i \in 1..Len(list) |-> JoinWith(eol, list[i])]) \o eol

IndexTexts ==
    {File(RenderIndex(l, eol)) : l \in ListsUpTo(StanzaPool, MaxStanzas) \ {<<>>},
                           eol \in {<<"\n">>, EOL}}

Entry(n, c) == [name |-> n, content |-> c]

Dirs ==
    { Dir(<<Entry(NameExact, 1), Entry(NameV, 2), Entry(NameEmptyVer, 3)>>),
      Dir(<<Entry(NameFuzzyX, 1), Entry(NameFuzzyY, 2)>>),
      Dir(<<Entry(NameFuzzyY, 2), Entry(NameFuzzyX, 1)>>),
      Dir(<<>>) }

Icons == Dir({IconJpg, IconJpeg})

OptionSets ==
    [only : {NoneV, Some({NameExact})},
     fix_metadata : BOOLEAN,
     add_icons : BOOLEAN,
     icon_url_prefix : {NoneV, Some(UrlPrefix)},
     no_compress : BOOLEAN,
     dry_run : BOOLEAN]

NoOpts == [only |-> NoneV, fix_metadata |-> FALSE, add_icons |-> FALSE,
           icon_url_prefix |-> NoneV, no_compress |-> FALSE, dry_run |-> FALSE]

NoPrev == [run |-> 0, opts |-> NoOpts, plans |-> <<>>, content |-> <<>>]

(***************************************************************************)
(* main() and write_outputs(), one run after another                       *)
(***************************************************************************)
\* The state of what a specification does not run.
FieldIdle ==
    /\ fLines = <<>> /\ fKey = <<>> /\ fValue = <<>>
    /\ setOnce = <<>> /\ setTwice = <<>> /\ removed = <<>>

FetchIdle ==
    /\ retries = 0 /\ attempt = 0 /\ last_err = NoneV /\ trace = <<>>
    /\ result = NoneV

BotIdle == msg = <<>> /\ running = <<>> /\ jobs = <<>>

Init ==
    /\ pc = "start"
    /\ run = 1
    /\ opts \in {o \in OptionSets : /\ o.add_icons \/ ~o.icon_url_prefix.some
                                    /\ ~(o.dry_run /\ o.no_compress)}
    /\ pkgFile \in IndexTexts \cup {NoFile}
    /\ bakFile = NoFile /\ gzFile = NoFile /\ bz2File = NoFile
    /\ debsDir \in Dirs \cup {NoDir}
    /\ iconsDir = Icons
    /\ raw = <<>> /\ stanzas = <<>> /\ plans = <<>>
    /\ new_stanzas = <<>> /\ new_content = <<>>
    /\ startFiles = <<pkgFile, bakFile, gzFile, bz2File>>
    /\ prev = NoPrev
    /\ FieldIdle /\ FetchIdle /\ BotIdle

\* Lines 248-249
ExitNoIndex ==
    /\ pc = "start"
    /\ ~pkgFile.exists
    /\ pc' = "exit"
    /\ UNCHANGED <<run, opts, fileVars, dirVars, localVars, startFiles, prev>>
    /\ UNCHANGED otherVars

\* Lines 250-251
ExitNoDebs ==
    /\ pc = "start"
    /\ pkgFile.exists
    /\ ~debsDir.exists
    /\ pc' = "exit"
    /\ UNCHANGED <<run, opts, fileVars, dirVars, localVars, startFiles, prev>>
    /\ UNCHANGED otherVars

\* Lines 253-254
ReadParse ==
    /\ pc = "start"
    /\ pkgFile.exists
    /\ debsDir.exists
    /\ raw' = pkgFile.text
    /\ stanzas' = parse_stanzas(raw')
    /\ pc' = "plan"
    /\ UNCHANGED <<run, opts, fileVars, dirVars, plans, new_stanzas, new_content,
                   startFiles, prev>>
    /\ UNCHANGED otherVars

\* Lines 256-266
BuildPlans ==
    /\ pc = "plan"
    /\ plans' = build_update_plans(stanzas, opts.only, opts.fix_metadata,
                                   opts.add_icons, iconsDir, opts.icon_url_prefix)
    /\ pc' = "planned"
    /\ UNCHANGED <<run, opts, fileVars, dirVars, raw, stanzas, new_stanzas,
                   new_content, startFiles, prev>>
    /\ UNCHANGED otherVars

\* Lines 268-270
NothingToDo ==
    /\ pc = "planned"
    /\ plans = <<>>
    /\ pc' = "nothing"
    /\ UNCHANGED <<run, opts, fileVars, dirVars, localVars, startFiles, prev>>
    /\ UNCHANGED otherVars

\* Lines 272-273
ApplyJoin ==
    /\ pc = "planned"
    /\ plans # <<>>
    /\ new_stanzas' = apply_plans(stanzas, plans)
    /\ new_content' = join_stanzas(new_stanzas')
    /\ pc' = "applied"
    /\ UNCHANGED <<run, opts, fileVars, dirVars, raw, stanzas, plans, startFiles, prev>>
    /\ UNCHANGED otherVars

\* Lines 275-277
DryRunReturn ==
    /\ pc = "applied"
    /\ opts.dry_run
    /\ pc' = "dry"
    /\ UNCHANGED <<run, opts, fileVars, dirVars, localVars, startFiles, prev>>
    /\ UNCHANGED otherVars


\* BackupOpen entered in a dry run too (lines 275-277 left out).
BackupOpenAlways ==
    /\ pc = "applied"
    /\ bakFile' = File(<<>>)
    /\ pc' = "bak_write"
    /\ UNCHANGED <<run, opts, pkgFile, gzFile, bz2File, dirVars, localVars,
                   startFiles, prev>>
    /\ UNCHANGED otherVars

\* Line 279 and lines 221-223: write_outputs is entered; backup.write_text
\* opens the backup for writing, which truncates it.
BackupOpen ==
    /\ pc = "applied"
    /\ ~opts.dry_run
    /\ IF pkgFile.exists
       THEN bakFile' = File(<<>>) /\ pc' = "bak_write"
       ELSE bakFile' = bakFile /\ pc' = "pkg_open"
    /\ UNCHANGED <<run, opts, pkgFile, gzFile, bz2File, dirVars, localVars,
                   startFiles, prev>>
    /\ UNCHANGED otherVars


\* BackupWrite copying the new content instead of the text of PKG_FILE.
BackupWriteNew ==
    /\ pc = "bak_write"
    /\ bakFile' = File(new_content)
    /\ pc' = "pkg_open"
    /\ UNCHANGED <<run, opts, pkgFile, gzFile, bz2File, dirVars, localVars,
                   startFiles, prev>>
    /\ UNCHANGED otherVars

\* Line 223: the text read from PKG_FILE reaches the backup.
BackupWrite ==
    /\ pc = "bak_write"
    /\ bakFile' = File(pkgFile.text)
    /\ pc' = "pkg_open"
    /\ UNCHANGED <<run, opts, pkgFile, gzFile, bz2File, dirVars, localVars,
                   startFiles, prev>>
    /\ UNCHANGED otherVars

\* Line 224: PKG_FILE.write_text opens the index for writing (truncates) ...
PrimaryOpen ==
    /\ pc = "pkg_open"
    /\ pkgFile' = File(<<>>)
    /\ pc' = "pkg_write"
    /\ UNCHANGED <<run, opts, bakFile, gzFile, bz2File, dirVars, localVars,
                   startFiles, prev>>
    /\ UNCHANGED otherVars

\* ... and writes content.  Lines 225, 232-233 when no_compress.
PrimaryWrite ==
    /\ pc = "pkg_write"
    /\ pkgFile' = File(new_content)
    /\ pc' = IF opts.no_compress THEN "written" ELSE "gz"
    /\ UNCHANGED <<run, opts, bakFile, gzFile, bz2File, dirVars, localVars,
                   startFiles, prev>>
    /\ UNCHANGED otherVars

\* Lines 226-228
WriteGz ==
    /\ pc = "gz"
    /\ gzFile' = File(new_content)
    /\ pc' = "bz2"
    /\ UNCHANGED <<run, opts, pkgFile, bakFile, bz2File, dirVars, localVars,
                   startFiles, prev>>
    /\ UNCHANGED otherVars

\* Lines 229-231
WriteBz2 ==
    /\ pc = "bz2"
    /\ bz2File' = File(new_content)
    /\ pc' = "written"
    /\ UNCHANGED <<run, opts, pkgFile, bakFile, gzFile, dirVars, localVars,
                   startFiles, prev>>
    /\ UNCHANGED otherVars

InWriteOutputs == pc \in {"bak_write", "pkg_open", "pkg_write", "gz", "bz2"}

\* The run stops inside write_outputs: a write raises, or the process dies.
Abort ==
    /\ InWriteOutputs
    /\ pc' = "crashed"
    /\ UNCHANGED <<run, opts, fileVars, dirVars, localVars, startFiles, prev>>
    /\ UNCHANGED otherVars

\* The updater is started again on the index it wrote: with the same command
\* line, with --no-compress switched, or with --no-compress and --fix-metadata
\* given; the directories are as they were.
NextRun ==
    /\ pc = "written"
    /\ run < MaxRuns
    /\ run' = run + 1
    /\ opts' \in {opts, [opts EXCEPT !.no_compress = ~@],
                  [opts EXCEPT !.no_compress = TRUE, !.fix_metadata = TRUE]}
    /\ pc' = "start"
    /\ raw' = <<>> /\ stanzas' = <<>> /\ plans' = <<>>
    /\ new_stanzas' = <<>> /\ new_content' = <<>>
    /\ startFiles' = <<pkgFile, bakFile, gzFile, bz2File>>
    /\ prev' = [run |-> run, opts |-> opts, plans |-> plans, content |-> new_content]
    /\ UNCHANGED <<fileVars, dirVars>>
    /\ UNCHANGED otherVars

Next ==
    \/ ExitNoIndex \/ ExitNoDebs \/ ReadParse \/ BuildPlans \/ NothingToDo
    \/ ApplyJoin \/ DryRunReturn \/ BackupOpen \/ BackupWrite \/ PrimaryOpen
    \/ PrimaryWrite \/ WriteGz \/ WriteBz2 \/ Abort \/ NextRun

Spec == Init /\ [][Next]_vars

(***************************************************************************)
(* Properties of the updater                                               *)
(***************************************************************************)
\* build_update_plans, and apply_plans with join_stanzas, have just returned.
PlansBuilt == pc = "planned"
PlansApplied == pc = "applied"

PlannedIndexes == {plans[k].stanza_index : k \in 1..Len(plans)}

\* The basenames a stanza declares in Filename fields with a non-empty value.
DeclaredNames(stanza) ==
    LET lines == splitlines(stanza)
    IN  {basename(FieldMatch(lines[j], KFilename).val) :
            j \in {j \in 1..Len(lines) : Truthy(FieldMatch(lines[j], KFilename))}}

\* The files of DEBS matching stem + '*' + '.deb' for a declared name.
Candidates(name) ==
    IF endswith(name, DotDeb)
    THEN {n \in DirNames(debsDir) : GlobMatch(n, SubSeq(name, 1, Len(name) - 4))}
    ELSE {}

\* The stanza has a Filename that resolves, exactly or fuzzily, to an artifact.
Resolvable(stanza) ==
    \E n \in DeclaredNames(stanza) : n \in DirNames(debsDir) \/ Candidates(n) # {}

ResolvableIndexes == {i \in 1..Len(stanzas) : Resolvable(stanzas[i])}

\* C2: with N stanzas of which M resolve, build_update_plans returns exactly M
\* plans without an allow-list, one per resolvable stanza with strictly
\* increasing stanza_index, and at most M with an allow-list; apply_plans
\* returns exactly N stanzas.
PlanCount ==
    /\ PlansBuilt =>
          /\ ~opts.only.some =>
                /\ Len(plans) = Cardinality(ResolvableIndexes)
                /\ PlannedIndexes = ResolvableIndexes
          /\ opts.only.some => Len(plans) <= Cardinality(ResolvableIndexes)
          /\ \A k \in 1..(Len(plans) - 1) :
                plans[k].stanza_index < plans[k + 1].stanza_index
    /\ PlansApplied => Len(new_stanzas) = Len(stanzas)

\* C2 witness: two stanzas, one of them resolvable only by a fuzzy match, one
\* plan, applied.
PlanCountWitness ==
    /\ pc = "applied"
    /\ ~opts.only.some
    /\ Len(stanzas) = 2
    /\ Len(plans) = 1
    /\ plans[1].fix_filename.some

\* The text of a stanza without the line terminator that ends its last line.
Body(stanza) ==
    LET ends == {k \in 0..Len(stanza) :
                    /\ k = 0 \/ stanza[k] \notin {"\r", "\n"}
                    /\ \A m \in (k + 1)..Len(stanza) : stanza[m] \in {"\r", "\n"}}
    IN  SubSeq(stanza, 1, CHOOSE k \in ends : TRUE)

\* The stanzas of the index on disk.
WrittenStanzas == parse_stanzas(pkgFile.text)

UnplannedIndexes == (1..Len(stanzas)) \ PlannedIndexes

\* C3 as stated: after a completed run every stanza without a plan stands in
\* the written index byte-identical to its input text, at the same position.
UnmatchedByteIdentical ==
    pc = "written" =>
        /\ Len(WrittenStanzas) = Len(stanzas)
        /\ \A i \in UnplannedIndexes : Body(WrittenStanzas[i]) = Body(stanzas[i])

\* C3 amended: after a completed run every stanza without a plan stands in
\* the written index, at the same position, as its input text with leading
\* and trailing whitespace trimmed; the bytes in between, line terminators
\* included, are unchanged.
UnmatchedTrimmedOnly ==
    pc = "written" =>
        /\ Len(WrittenStanzas) = Len(stanzas)
        /\ \A i \in UnplannedIndexes : Body(WrittenStanzas[i]) = strip(stanzas[i])

\* C3 witness: a run has written an index holding an unplanned stanza whose
\* input text starts or ends with whitespace.
UnmatchedWitness ==
    /\ pc = "written"
    /\ \E i \in UnplannedIndexes : strip(stanzas[i]) # Body(stanzas[i])

\* The lines of a stanza whose field name is key, compared case-insensitively.
LinesNamed(lines, key) ==
    {j \in 1..Len(lines) : FieldName(lines[j]) = Some(lower(key))}

\* C4: after apply_plans every planned stanza holds Size, MD5sum, SHA1 and
\* SHA256 exactly once each, as its last four lines in that order, with the
\* plan's values.
HashFieldsOnceAtEnd ==
    PlansApplied =>
        \A k \in 1..Len(plans) :
            LET lines == splitlines(new_stanzas[plans[k].stanza_index])
                n == Len(lines)
            IN  /\ n >= 4
                /\ \A key \in HashKeys : Cardinality(LinesNamed(lines, key)) = 1
                /\ lines[n - 3] = KSize \o <<":", " ">> \o DecStr(plans[k].size)
                /\ lines[n - 2] = KMD5sum \o <<":", " ">> \o plans[k].md5
                /\ lines[n - 1] = KSHA1 \o <<":", " ">> \o plans[k].sha1
                /\ lines[n] = KSHA256 \o <<":", " ">> \o plans[k].sha256

\* C4 witness: a plan was applied to a stanza that held a size field twice,
\* in other spellings, and a SHA1 line without a value.
HashFieldsWitness ==
    /\ pc = "applied"
    /\ \E k \in 1..Len(plans) :
          LET old == splitlines(stanzas[plans[k].stanza_index])
          IN  /\ Cardinality(LinesNamed(old, KSize)) >= 2
              /\ LinesNamed(old, KSHA1) # {}

\* A run that started on the index the previous run wrote, with the same
\* command line, has ended.
SecondRunEnded ==
    /\ run >= 2
    /\ prev.run = run - 1
    /\ opts = prev.opts
    /\ startFiles[1] = File(prev.content)
    /\ pc \in {"written", "nothing", "dry"}

PlanValues(pls) ==
    [k \in 1..Len(pls) |->
        <<pls[k].stanza_index, pls[k].size, pls[k].md5, pls[k].sha1, pls[k].sha256>>]

\* C5 as stated: the second run yields the same plans' Size/hash values and
\* writes an index byte-identical to the one the first run wrote.
FullRunIdempotent ==
    SecondRunEnded =>
        /\ pc = "written"
        /\ PlanValues(plans) = PlanValues(prev.plans)
        /\ pkgFile = File(prev.content)

\* C5 amended: the second run leaves the index byte-identical to the one the
\* first run wrote; each of its plans carries the Size/hash values of the
\* first run's plan for that stanza; and it has a plan for every stanza the
\* first run planned, except those whose Filename the first run corrected to
\* a name that is not in the allow-list (with no plan left it writes nothing).
FullRunIdempotentIndex ==
    SecondRunEnded =>
        /\ pkgFile = File(prev.content)
        /\ \A k \in 1..Len(plans) :
              \E j \in 1..Len(prev.plans) : PlanValues(plans)[k] = PlanValues(prev.plans)[j]
        /\ \A j \in 1..Len(prev.plans) :
              \/ \E k \in 1..Len(plans) : PlanValues(plans)[k] = PlanValues(prev.plans)[j]
              \/ /\ prev.plans[j].fix_filename.some
                 /\ opts.only.some
                 /\ prev.plans[j].filename \notin opts.only.val
        /\ plans = <<>> <=> pc = "nothing"

\* C5 witness: a second run with the same command line has written again,
\* after a first run that corrected a Filename.
FullRunWitness ==
    /\ SecondRunEnded
    /\ pc = "written"
    /\ \E j \in 1..Len(prev.plans) : prev.plans[j].fix_filename.some

LexMin(S) == CHOOSE n \in S : \A m \in S \ {n} : LexLess(n, m)

PlansOf(i) == {plans[k] : k \in {k \in 1..Len(plans) : plans[k].stanza_index = i}}

\* C6: a declared basename that exists in DEBS is the resolved artifact, with
\* no filename correction; otherwise the lexicographically smallest file
\* matching stem*.deb is, whatever the enumeration order, with a correction to
\* it; with no candidate there is no plan.
ArtifactResolution ==
    PlansBuilt =>
        \A i \in 1..Len(stanzas) :
            \A n \in DeclaredNames(stanzas[i]) :
                ~ExcludedByOnly(opts.only, n) =>
                    IF n \in DirNames(debsDir)
                    THEN \E p \in PlansOf(i) : p.filename = n /\ ~p.fix_filename.some
                    ELSE IF Candidates(n) # {}
                    THEN \E p \in PlansOf(i) :
                            /\ p.filename = LexMin(Candidates(n))
                            /\ p.fix_filename = Some(DebsPrefix \o LexMin(Candidates(n)))
                    ELSE PlansOf(i) = {}

\* C6 witness: a plan resolved by fuzzy match in a directory that enumerates
\* the larger candidate first.
ArtifactResolutionWitness ==
    /\ PlansBuilt
    /\ Len(debsDir.entries) = 2
    /\ LexLess(debsDir.entries[2].name, debsDir.entries[1].name)
    /\ \E k \in 1..Len(plans) : plans[k].fix_filename.some

\* C7: with metadata-fixing on, for every planned stanza whose artifact name
\* splits into (package, version, architecture), a correction is recorded for
\* exactly the fields whose declared value differs, and after apply_plans the
\* first Package, Version and Architecture fields equal the derived triple.
MetadataReconciled ==
    (PlansApplied /\ opts.fix_metadata) =>
        \A k \in 1..Len(plans) :
            LET p == plans[k]
                d == parse_deb_filename(p.filename)
                old == splitlines(stanzas[p.stanza_index])
                new == splitlines(new_stanzas[p.stanza_index])
            IN  d.some =>
                  /\ p.fix_pkg.some <=> get_field(old, KPackage).value # Some(d.val[1])
                  /\ p.fix_ver.some <=> get_field(old, KVersion).value # Some(d.val[2])
                  /\ p.fix_arch.some <=> get_field(old, KArchitecture).value # Some(d.val[3])
                  /\ get_field(new, KPackage).value = Some(d.val[1])
                  /\ get_field(new, KVersion).value = Some(d.val[2])
                  /\ get_field(new, KArchitecture).value = Some(d.val[3])

CurrentFiles == <<pkgFile, bakFile, gzFile, bz2File>>

\* C8: the backup holds the complete pre-existing index before the first
\* write to the primary index begins, so whenever the index differs from what
\* it was when the run started (the run may have stopped there), the backup
\* equals that; a run that stops with an incomplete backup has not touched
\* the index.
BackupBeforeOverwrite ==
    /\ pc \in {"pkg_open", "pkg_write", "gz", "bz2", "written"} => bakFile = startFiles[1]
    /\ pkgFile # startFiles[1] => bakFile = startFiles[1]
    /\ bakFile # startFiles[1] /\ bakFile # startFiles[2] => pkgFile = startFiles[1]

\* C8 witness: the run stopped while the index was being written.
BackupWitness ==
    /\ pc = "crashed"
    /\ startFiles[1].text # <<>>
    /\ pkgFile = File(<<>>)

\* C9: a run changes a file only if the index and the artifact directory
\* exist, a plan was produced and dry-run is off; a dry run, a run without
\* plans and a run that aborts before work leave all four files as they were.
NoWritesWithoutWork ==
    /\ CurrentFiles # startFiles =>
          /\ startFiles[1].exists
          /\ debsDir.exists
          /\ plans # <<>>
          /\ ~opts.dry_run
    /\ pc \in {"exit", "nothing", "dry"} => CurrentFiles = startFiles

\* C9 witness: a dry run with plans has returned.
NoWritesWitness == pc = "dry" /\ plans # <<>>

\* C13: after a completed run, a Packages.gz or Packages.bz2 that exists
\* decompresses to the current content of the index.
CompressedNeverStale ==
    pc \in {"written", "nothing", "dry"} =>
        /\ gzFile.exists => gzFile.text = pkgFile.text
        /\ bz2File.exists => bz2File.text = pkgFile.text

\* C10: in the index written by a completed run every line break is CRLF.
ConsistentTerminator ==
    pc = "written" =>
        \A i \in 1..Len(pkgFile.text) :
            /\ pkgFile.text[i] = "\n" => (i > 1 /\ pkgFile.text[i - 1] = "\r")
            /\ pkgFile.text[i] = "\r" => (i < Len(pkgFile.text) /\ pkgFile.text[i + 1] = "\n")

(***************************************************************************)
(* Stanza lists handed to join_stanzas and parsed back                     *)
(***************************************************************************)
StanzaTexts ==
    { <<"P", "a", "c", "k", "a", "g", "e", ":", " ", "a">>,
      <<"P", "a", "c", "k", "a", "g", "e", ":", " ", "a", "\n",
        "V", "e", "r", "s", "i", "o", "n", ":", " ", "1">>,
      <<"P", "a", "c", "k", "a", "g", "e", ":", " ", "a", "\r", "\n",
        "V", "e", "r", "s", "i", "o", "n", ":", " ", "1">>,
      <<" ", "P", "a", "c", "k", "a", "g", "e", ":", " ", "b", " ">>,
      <<"P", "a", "c", "k", "a", "g", "e", ":", " ", "c", "\n">>,
      <<"x">> }

InitStanza ==
    /\ pc = "list"
    /\ run = 0
    /\ opts = NoOpts
    /\ pkgFile = NoFile /\ bakFile = NoFile /\ gzFile = NoFile /\ bz2File = NoFile
    /\ debsDir = NoDir /\ iconsDir = NoDir
    /\ raw = <<>> /\ stanzas = <<>> /\ plans = <<>>
    /\ new_stanzas \in ListsUpTo(StanzaTexts, MaxListLen) \ {<<>>}
    /\ new_content = <<>>
    /\ startFiles = <<NoFile, NoFile, NoFile, NoFile>>
    /\ prev = NoPrev
    /\ FieldIdle /\ FetchIdle /\ BotIdle

JoinList ==
    /\ pc = "list"
    /\ new_content' = join_stanzas(new_stanzas)
    /\ pc' = "joined"
    /\ UNCHANGED <<run, opts, fileVars, dirVars, raw, stanzas, plans, new_stanzas,
                   startFiles, prev>>
    /\ UNCHANGED otherVars

ParseJoined ==
    /\ pc = "joined"
    /\ stanzas' = parse_stanzas(new_content)
    /\ pc' = "parsed"
    /\ UNCHANGED <<run, opts, fileVars, dirVars, raw, plans, new_stanzas,
                   new_content, startFiles, prev>>
    /\ UNCHANGED otherVars

NextStanza == JoinList \/ ParseJoined

SpecStanza == InitStanza /\ [][NextStanza]_vars

\* C1: parse_stanzas(join_stanzas(S)) equals S element for element, for every
\* non-empty list S of non-blank stanzas.
RoundTrip == pc = "parsed" => stanzas = new_stanzas

(***************************************************************************)
(* tools/download_repo_debs.py: parse_filenames_from_packages              *)
(***************************************************************************)
FilenameColon == <<"f", "i", "l", "e", "n", "a", "m", "e", ":">>

DotSlash == <<".", "/">>

\* Lines 76-77: while val.startswith('./'): val = val[2:]
RECURSIVE StripDotSlash(_)
StripDotSlash(val) ==
    IF startswith(val, DotSlash) THEN StripDotSlash(SubSeq(val, 3, Len(val)))
    ELSE val

\* Lines 72-78: the normalized value of every line that starts with
\* 'filename:' in any letter case; the value is what follows the first ':'.
FilenameValues(lines) ==
    LET hits == SelectSeq(lines, LAMBDA ln : startswith(lower(ln), FilenameColon))
    IN  [k \in 1..Len(hits) |->
            StripDotSlash(strip(SubSeq(hits[k], Len(FilenameColon) + 1, Len(hits[k]))))]

\* Lines 80-85: the first occurrence of every value, in order.
Deduplicate(out) ==
    LET firsts == {k \in 1..Len(out) : \A j \in 1..(k - 1) : out[j] # out[k]}
        nth(n) == CHOOSE k \in firsts : Cardinality({j \in firsts : j < k}) = n - 1
    IN  [n \in 1..Cardinality(firsts) |-> out[nth(n)]]

parse_filenames_from_packages(text) == Deduplicate(FilenameValues(splitlines(text)))

\* C11: no filename starts with './': neither a filename returned by
\* parse_filenames_from_packages (here: from the index the run read and from
\* the index it produced), nor a Filename the updater records as a correction
\* and writes into a stanza.
FilenamesNormalized ==
    PlansApplied =>
        /\ \A text \in {raw, new_content} :
              LET names == parse_filenames_from_packages(text)
              IN  \A k \in 1..Len(names) : ~startswith(names[k], DotSlash)
        /\ \A k \in 1..Len(plans) :
              plans[k].fix_filename.some =>
                 /\ ~startswith(plans[k].fix_filename.val, DotSlash)
                 /\ LET v == get_field(splitlines(new_stanzas[plans[k].stanza_index]),
                                       KFilename).value
                    IN  v.some /\ ~startswith(v.val, DotSlash)

(***************************************************************************)
(* set_field and remove_fields applied to lines                            *)
(***************************************************************************)
MaxLines == 3        \* lines handed to set_field and remove_fields

LinePool ==
    { <<"V", "e", "r", "s", "i", "o", "n", ":", " ", "1">>,
      <<"v", "e", "r", "s", "i", "o", "n", " ", ":", " ", "2">>,
      <<"V", "e", "r", "s", "i", "o", "n", ":">>,
      <<"P", "a", "c", "k", "a", "g", "e", ":", " ", "a">>,
      <<" ", "V", "E", "R", "S", "I", "O", "N", ":", " ", " ">>,
      <<"x">> }

KeyPool == {KVersion, KPackage}

ValuePool == {<<"1">>, <<"2">>}

InitField ==
    /\ pc = "lines"
    /\ fLines \in ListsUpTo(LinePool, MaxLines)
    /\ fKey \in KeyPool
    /\ fValue \in ValuePool
    /\ setOnce = <<>> /\ setTwice = <<>> /\ removed = <<>>
    /\ run = 0
    /\ opts = NoOpts
    /\ pkgFile = NoFile /\ bakFile = NoFile /\ gzFile = NoFile /\ bz2File = NoFile
    /\ debsDir = NoDir /\ iconsDir = NoDir
    /\ raw = <<>> /\ stanzas = <<>> /\ plans = <<>>
    /\ new_stanzas = <<>> /\ new_content = <<>>
    /\ startFiles = <<NoFile, NoFile, NoFile, NoFile>>
    /\ prev = NoPrev
    /\ FetchIdle /\ BotIdle

\* set_field(lines, key, value)
SetField ==
    /\ pc = "lines"
    /\ setOnce' = set_field(fLines, fKey, fValue)
    /\ pc' = "set"
    /\ UNCHANGED <<fLines, fKey, fValue, setTwice, removed>>
    /\ UNCHANGED <<updaterVars, fetchVars, botVars>>

\* set_field applied again, to the lines it returned
SetFieldAgain ==
    /\ pc = "set"
    /\ setTwice' = set_field(setOnce, fKey, fValue)
    /\ pc' = "set_again"
    /\ UNCHANGED <<fLines, fKey, fValue, setOnce, removed>>
    /\ UNCHANGED <<updaterVars, fetchVars, botVars>>

\* remove_fields(lines, [key])
RemoveFields ==
    /\ pc = "set_again"
    /\ removed' = remove_fields(fLines, {fKey})
    /\ pc' = "removed"
    /\ UNCHANGED <<fLines, fKey, fValue, setOnce, setTwice>>
    /\ UNCHANGED <<updaterVars, fetchVars, botVars>>

NextField == SetField \/ SetFieldAgain \/ RemoveFields

SpecField == InitField /\ [][NextField]_vars

\* C12: set_field replaces the first line whose field name is key (compared
\* case-insensitively) and leaves every other line and the line count alone,
\* or appends one line when there is no such line; set_field applied twice
\* gives what it gives applied once; remove_fields(lines, [key]) leaves no
\* line with that field name and keeps the other lines in their order.
FieldSetRemove ==
    pc = "removed" =>
        LET named == LinesNamed(fLines, fKey)
            Other(ln) == FieldName(ln) # Some(lower(fKey))
        IN  /\ IF named # {}
               THEN LET i == CHOOSE i \in named : \A j \in named : i <= j
                    IN  setOnce = [fLines EXCEPT ![i] = FieldLine(fKey, fValue)]
               ELSE setOnce = Append(fLines, FieldLine(fKey, fValue))
            /\ setTwice = setOnce
            /\ LinesNamed(removed, fKey) = {}
            /\ removed = SelectSeq(fLines, Other)

(***************************************************************************)
(* tools/tg_bot_downloader.py: the main loop and the Job threads           *)
(*                                                                         *)
(* The main loop takes one update at a time and handles it; the thread of  *)
(* every started Job runs beside it.  An update is a message of one chat:  *)
(* /start, /cancel, a text with a URL or a text without one; api_ok tells  *)
(* whether the send_message call its handling makes succeeds (a failing    *)
(* call raises, and the loop goes on with the next update, line 260).      *)
(***************************************************************************)
MaxChats == 2        \* chats that write to the bot
MaxJobs == 3         \* Job objects created in a behaviour

Chats == 1..MaxChats

MessageKinds == {"start", "cancel", "url", "text"}

\* The thread of a Job is alive from start() until run() returns.
Alive(job) == job.state # "returned"

\* Line 257: Job(chat_id, msg_id, url, max_n, delay_s), and line 259: start()
NewJob(chat_id) ==
    [chat_id |-> chat_id, cancel |-> FALSE, state |-> "fetching", outcome |-> "none"]

InitBot ==
    /\ pc = "poll"
    /\ msg = [chat_id |-> 0, kind |-> "none", api_ok |-> TRUE]
    /\ running = [c \in Chats |-> 0]
    /\ jobs = <<>>
    /\ run = 0
    /\ opts = NoOpts
    /\ pkgFile = NoFile /\ bakFile = NoFile /\ gzFile = NoFile /\ bz2File = NoFile
    /\ debsDir = NoDir /\ iconsDir = NoDir
    /\ raw = <<>> /\ stanzas = <<>> /\ plans = <<>>
    /\ new_stanzas = <<>> /\ new_content = <<>>
    /\ startFiles = <<NoFile, NoFile, NoFile, NoFile>>
    /\ prev = NoPrev
    /\ FieldIdle /\ FetchIdle

\* Lines 229-237: the next update of the batch.  A URL that would start a
\* job beyond MaxJobs is not taken.
NextUpdate ==
    /\ pc = "poll"
    /\ \E c \in Chats, kind \in MessageKinds, ok \in BOOLEAN :
          /\ kind = "url" => (running[c] # 0 \/ Len(jobs) < MaxJobs)
          /\ msg' = [chat_id |-> c, kind |-> kind, api_ok |-> ok]
    /\ pc' = "handle"
    /\ UNCHANGED <<running, jobs>>
    /\ UNCHANGED <<updaterVars, fieldVars, fetchVars>>

\* Lines 238-240: the help text is sent.
HandleStart ==
    /\ pc = "handle"
    /\ msg.kind = "start"
    /\ pc' = "poll"
    /\ UNCHANGED <<msg, running, jobs>>
    /\ UNCHANGED <<updaterVars, fieldVars, fetchVars>>

\* Lines 241-248: running.pop(chat_id, None); the job found gets cancel = True.
HandleCancel ==
    /\ pc = "handle"
    /\ msg.kind = "cancel"
    /\ running' = [running EXCEPT ![msg.chat_id] = 0]
    /\ IF running[msg.chat_id] # 0
       THEN jobs' = [jobs EXCEPT ![running[msg.chat_id]].cancel = TRUE]
       ELSE jobs' = jobs
    /\ pc' = "poll"
    /\ UNCHANGED msg
    /\ UNCHANGED <<updaterVars, fieldVars, fetchVars>>

\* Lines 249-252: the "no link recognised" text is sent.
HandleNoUrl ==
    /\ pc = "handle"
    /\ msg.kind = "text"
    /\ pc' = "poll"
    /\ UNCHANGED <<msg, running, jobs>>
    /\ UNCHANGED <<updaterVars, fieldVars, fetchVars>>

\* Lines 253-255: the "a job is already running" text is sent.
HandleUrlBusy ==
    /\ pc = "handle"
    /\ msg.kind = "url"
    /\ running[msg.chat_id] # 0
    /\ pc' = "poll"
    /\ UNCHANGED <<msg, running, jobs>>
    /\ UNCHANGED <<updaterVars, fieldVars, fetchVars>>

\* Lines 256-259: when send_message raises, no Job is created.
HandleUrlStart ==
    /\ pc = "handle"
    /\ msg.kind = "url"
    /\ running[msg.chat_id] = 0
    /\ IF msg.api_ok
       THEN /\ jobs' = Append(jobs, NewJob(msg.chat_id))
            /\ running' = [running EXCEPT ![msg.chat_id] = Len(jobs) + 1]
       ELSE UNCHANGED <<jobs, running>>
    /\ pc' = "poll"
    /\ UNCHANGED msg
    /\ UNCHANGED <<updaterVars, fieldVars, fetchVars>>

\* Job.run, lines 166-187: the list of files is fetched; without files, or
\* when the fallback raises (lines 206-207), run returns.
JobFetch ==
    /\ \E j \in 1..Len(jobs) :
          /\ jobs[j].state = "fetching"
          /\ \E o \in {"files", "no_files", "failed"} :
                jobs' = [jobs EXCEPT ![j] =
                            IF o = "files" THEN [@ EXCEPT !.state = "downloading"]
                            ELSE [@ EXCEPT !.state = "returned", !.outcome = o]]
    /\ UNCHANGED <<pc, msg, running>>
    /\ UNCHANGED <<updaterVars, fieldVars, fetchVars>>

\* Job.run, lines 188-207: download_many ends or raises, and run returns.
JobDownload ==
    /\ \E j \in 1..Len(jobs) :
          /\ jobs[j].state = "downloading"
          /\ \E o \in {"done", "failed"} :
                jobs' = [jobs EXCEPT ![j] = [@ EXCEPT !.state = "returned", !.outcome = o]]
    /\ UNCHANGED <<pc, msg, running>>
    /\ UNCHANGED <<updaterVars, fieldVars, fetchVars>>

NextBot ==
    \/ NextUpdate \/ HandleStart \/ HandleCancel \/ HandleNoUrl
    \/ HandleUrlBusy \/ HandleUrlStart \/ JobFetch \/ JobDownload

SpecBot == InitBot /\ [][NextBot]_vars

JobsOf(c) == {j \in 1..Len(jobs) : jobs[j].chat_id = c}

\* C14: at most one Job thread of a chat is executing at any time.
OneJobPerChat ==
    \A c \in Chats : Cardinality({j \in JobsOf(c) : Alive(jobs[j])}) <= 1

\* C15: once the Job.run of a chat has returned, the next message with a URL
\* from that chat starts a new job, without a /cancel in between: a URL
\* message of a chat that has had a job, none of whose jobs is executing, and
\* whose reply can be sent, adds a Job when the main loop handles it.
JobCompletionFreesChat ==
    [][(/\ pc = "handle" /\ pc' = "poll"
        /\ msg.kind = "url"
        /\ msg.api_ok
        /\ JobsOf(msg.chat_id) # {}
        /\ \A j \in JobsOf(msg.chat_id) : ~Alive(jobs[j]))
       => Len(jobs') = Len(jobs) + 1]_vars

(***************************************************************************)
(* tools/download_repo_debs.py: fetch_bytes                                *)
(*                                                                         *)
(* A request either gives a body or raises an Exception; urlopen has a     *)
(* timeout and time.sleep returns, so every step of the call ends.         *)
(***************************************************************************)
MaxRetries == 3      \* largest value of retries

Bodies == {"body1", "body2"}

Errors == {"timeout", "refused"}

UnknownError == "Unknown error fetching URL"

RequestEvent(n, ok, val) ==
    [kind |-> "request", attempt |-> n, ok |-> ok, val |-> val, factor |-> 0]

\* time.sleep(delay * factor)
SleepEvent(n, factor) ==
    [kind |-> "sleep", attempt |-> n, ok |-> FALSE, val |-> "", factor |-> factor]

Returned(body) == Some([kind |-> "returned", val |-> body])

Raised(err) == Some([kind |-> "raised", val |-> err])

InitFetch ==
    /\ pc = "for"
    /\ retries \in -1..MaxRetries
    /\ attempt = 0
    /\ last_err = NoneV
    /\ trace = <<>>
    /\ result = NoneV
    /\ run = 0
    /\ opts = NoOpts
    /\ pkgFile = NoFile /\ bakFile = NoFile /\ gzFile = NoFile /\ bz2File = NoFile
    /\ debsDir = NoDir /\ iconsDir = NoDir
    /\ raw = <<>> /\ stanzas = <<>> /\ plans = <<>>
    /\ new_stanzas = <<>> /\ new_content = <<>>
    /\ startFiles = <<NoFile, NoFile, NoFile, NoFile>>
    /\ prev = NoPrev
    /\ FieldIdle /\ BotIdle

\* Line 29 with <= in place of <
MoreAttemptsInclusive == attempt <= retries

\* Line 29: attempt < retries
MoreAttempts == attempt < retries

\* Lines 22-26: the request of this attempt succeeds, and its body is returned.
RequestOk ==
    /\ pc = "for"
    /\ attempt <= retries
    /\ \E body \in Bodies :
          /\ trace' = Append(trace, RequestEvent(attempt, TRUE, body))
          /\ result' = Returned(body)
    /\ pc' = "done"
    /\ UNCHANGED <<retries, attempt, last_err>>
    /\ UNCHANGED <<updaterVars, fieldVars, botVars>>

\* Lines 22-28: the request of this attempt raises.
RequestFails ==
    /\ pc = "for"
    /\ attempt <= retries
    /\ \E err \in Errors :
          /\ trace' = Append(trace, RequestEvent(attempt, FALSE, err))
          /\ last_err' = Some(err)
    /\ pc' = "except"
    /\ UNCHANGED <<retries, attempt, result>>
    /\ UNCHANGED <<updaterVars, fieldVars, botVars>>

\* Lines 29-30, and the loop goes to the next attempt.
SleepBeforeRetry ==
    /\ pc = "except"
    /\ MoreAttempts
    /\ trace' = Append(trace, SleepEvent(attempt, attempt + 1))
    /\ attempt' = attempt + 1
    /\ pc' = "for"
    /\ UNCHANGED <<retries, last_err, result>>
    /\ UNCHANGED <<updaterVars, fieldVars, botVars>>

\* Lines 31-32: the exception being handled is raised again.
RaiseLast ==
    /\ pc = "except"
    /\ ~MoreAttempts
    /\ result' = Raised(last_err.val)
    /\ pc' = "done"
    /\ UNCHANGED <<retries, attempt, last_err, trace>>
    /\ UNCHANGED <<updaterVars, fieldVars, botVars>>

\* Line 33: the loop ended without a return or a raise.
LoopExhausted ==
    /\ pc = "for"
    /\ attempt > retries
    /\ result' = Raised(IF last_err.some THEN last_err.val ELSE UnknownError)
    /\ pc' = "done"
    /\ UNCHANGED <<retries, attempt, last_err, trace>>
    /\ UNCHANGED <<updaterVars, fieldVars, botVars>>

NextFetch ==
    \/ RequestOk \/ RequestFails \/ SleepBeforeRetry \/ RaiseLast \/ LoopExhausted

SpecFetch == InitFetch /\ [][NextFetch]_vars /\ WF_vars(NextFetch)

Requests == {i \in 1..Len(trace) : trace[i].kind = "request"}

Sleeps == {i \in 1..Len(trace) : trace[i].kind = "sleep"}

\* What holds of every state of a call with retries >= 0: at most
\* retries + 1 requests; a request that succeeded is the last event, and the
\* call has returned its body; a sleep follows a failed request, is followed
\* by a request before the call ends, and is never the last event of a call
\* that has ended; a call that has raised made retries + 1 requests, all
\* failed, and raised the error of the last one.
FetchBounded ==
    retries >= 0 =>
        /\ Cardinality(Requests) <= retries + 1
        /\ \A i \in Requests :
              trace[i].ok => /\ i = Len(trace)
                             /\ pc = "done"
                             /\ result.some
                             /\ result.val.kind = "returned"
                             /\ result.val.val = trace[i].val
        /\ \A i \in Sleeps :
              /\ i > 1 /\ i - 1 \in Requests /\ ~trace[i - 1].ok
              /\ i < Len(trace) => i + 1 \in Requests
              /\ i = Len(trace) => pc = "for" /\ attempt <= retries
        /\ (pc = "done" /\ result.val.kind = "raised") =>
              /\ Cardinality(Requests) = retries + 1
              /\ \A i \in Requests : ~trace[i].ok
              /\ Len(trace) \in Requests
              /\ result.val.val = trace[Len(trace)].val
        /\ (pc = "done" /\ result.val.kind = "returned") =>
              /\ Len(trace) \in Requests
              /\ trace[Len(trace)].ok

\* C16: for retries >= 0 fetch_bytes makes at most retries + 1 requests,
\* returns the body of the first request that succeeds without a further
\* request, sleeps only between requests, and when all retries + 1 requests
\* fail it ends by raising the error of the last one; the call always ends.
FetchRetryBound == []FetchBounded /\ <>(pc = "done")

\* C16 witness: a call with retries >= 2 has raised after all its requests
\* failed, the last with another error than the first.
FetchRetryWitness ==
    /\ pc = "done"
    /\ retries >= 2
    /\ result.val.kind = "raised"
    /\ Cardinality(Sleeps) = retries
    /\ trace[1].val # trace[Len(trace)].val

====
